---- MODULE Spec2Model ----
(***************************************************************************)
(* Model of the BlockchainSecurityScanner core:                            *)
(*   - the connection manager   (src/app.py, get_web3_provider)            *)
(*   - the rate limiter         (src/ai-analyzer.py, RateLimiter)          *)
(*   - the risk scoring pipeline (src/security_scanner.py)                 *)
(* Scores are fixed-point numbers in thousandths (1000 stands for 1.0).    *)
(***************************************************************************)
EXTENDS Integers, Sequences, FiniteSets, TLC

(* ------------------------------------------------------------------ *)
(* Bounds                                                             *)
(* ------------------------------------------------------------------ *)
\* number of fallback rpc_urls configured per network in the model
NumEndpoints == 2

(* ------------------------------------------------------------------ *)
(* State                                                              *)
(* ------------------------------------------------------------------ *)
\* the connection manager (get_web3_provider and its callers)
VARIABLES
    web3_providers,   \* the provider cache: chain id -> handle or NoHandle
    pc,               \* position of every caller in get_web3_provider
    network_id,       \* argument network_id of the running call
    force_new,        \* argument force_new of the running call
    provider,         \* local variable provider (the cached handle read)
    rpc_idx,          \* position of the outer loop in config['rpc_urls']
    attempt,          \* inner loop variable attempt (0-based)
    last_error,       \* local variable last_error
    tried,            \* attempts made on each endpoint position in this call
    lastTried,        \* endpoint position of the latest attempt (0: none)
    lastResult,       \* what the latest attempt ended with ("none": none)
    entry_cache,      \* web3_providers as it was when the call started
    probes,           \* liveness probes of a cached handle in this call
    probed,           \* what the latest of these probes answered
    backoff,          \* seconds slept by the latest time.sleep
    outcome,          \* how the call ended
    status,           \* check_network_status: its position and its report
    network           \* analyze_contract: its network phase (lines 9-57)

acquireVars == <<web3_providers, pc, network_id, force_new, provider,
                 rpc_idx, attempt, last_error, tried, lastTried, lastResult,
                 entry_cache, probes, probed, backoff, outcome>>

connVars == <<acquireVars, status, network>>

\* the rate limiter and the threads in its wrapper
VARIABLES
    now,          \* the clock (datetime.now()), in ticks
    requests,     \* RateLimiter.requests: list of admission timestamps
    rl_pc,        \* position of every thread in wrapper / allow_request
    rl_now,       \* local variable now of allow_request
    filtered,     \* the list built by the comprehension of lines 31-32
    wake,         \* end of the time.sleep of the wrapper
    entered,      \* calls of the wrapper so far
    invoked,      \* time -> number of calls of func initiated at that time
    admitted      \* time -> number of calls admitted with that timestamp

rateVars == <<now, requests, rl_pc, rl_now, filtered, wake, entered, invoked,
              admitted>>

\* one contract scan and one wallet check
VARIABLES
    scan_pc,          \* position of the scan in analyze_contract
    source_code,      \* what the checks see in the argument source_code
    vulnerabilities,  \* local variable vulnerabilities
    risk_score,       \* local variable risk_score
    ai_analysis,      \* local variable ai_analysis
    prompt_network,   \* network named in the system prompt of the scan's request
    scan_result,      \* the dict returned by analyze_contract
    wallet_pc,        \* position of the check in check_wallet_safety
    flags,            \* local variable flags
    wallet_score,     \* local variable risk_score of check_wallet_safety
    tx_analysis,      \* local variable tx_analysis
    wallet_result,    \* the dict returned by check_wallet_safety
    combination       \* the latest call of calculate_combined_risk_score

scoreVars == <<scan_pc, source_code, vulnerabilities, risk_score, ai_analysis,
               prompt_network, scan_result, wallet_pc, flags, wallet_score, tx_analysis,
               wallet_result, combination>>

walletVars == <<wallet_pc, flags, wallet_score, tx_analysis, wallet_result>>
contractVars == <<scan_pc, source_code, vulnerabilities, risk_score,
                  ai_analysis, prompt_network, scan_result>>

(* ------------------------------------------------------------------ *)
(* Connection manager: configuration                                  *)
(* ------------------------------------------------------------------ *)
\* 'retry_count': 3 of every NETWORK_CONFIGS entry
retry_count == 3

\* chain ids that have an entry in NETWORK_CONFIGS (Ethereum, BSC)
NETWORK_CONFIGS == {1, 56}

\* chain ids without an entry in NETWORK_CONFIGS
UnknownIds == {999}

\* the chain ids a caller may ask for
RequestIds == NETWORK_CONFIGS \cup UnknownIds

\* config['rpc_urls'] of network n: positions 1..NumEndpoints, in order
rpc_urls(n) == 1 .. NumEndpoints

\* a provider (handle) is a Web3 object bound to one rpc url of one network:
\* <<chain id, position of the url>>; NoHandle stands for a missing key
NoHandle == <<0, 0>>

\* callers of get_web3_provider
Procs == {1, 2}

\* the callers of the sequential specification
SeqProcs == {1}

(* ------------------------------------------------------------------ *)
(* The RPC endpoints (environment)                                    *)
(* ------------------------------------------------------------------ *)
\* The endpoints are third-party infrastructure: what an endpoint answers
\* may differ from one use to the next, so every use of an endpoint draws
\* its behaviour at that moment from ModeNames.
ModeNames ==
    {"healthy", "down", "broken", "noblock", "wrongchain", "syncing", "nosync"}

\* some chain id other than n
OtherChain(n) == IF n = 1 THEN 56 ELSE 1

\* What the JSON-RPC calls of an endpoint of network n answer in mode m:
\*   connected : is_connected()      "yes" | "no" | "raise"
\*   block     : eth.get_block       "ok" | "none"
\*   chain     : eth.chain_id
\*   syncing   : eth.syncing         "no" | "yes" | "raise" (unsupported)
Behaviour(m, n) ==
    [connected |-> CASE m = "down"   -> "no"
                     [] m = "broken" -> "raise"
                     [] OTHER        -> "yes",
     block     |-> IF m = "noblock" THEN "none" ELSE "ok",
     chain     |-> IF m = "wrongchain" THEN OtherChain(n) ELSE n,
     syncing   |-> CASE m = "syncing" -> "yes"
                     [] m = "nosync"  -> "raise"
                     [] OTHER         -> "no"]

NoOutcome ==
    [kind |-> "none", handle |-> NoHandle, via |-> "none", reported |-> 0,
     syncing |-> FALSE, cause |-> "none"]

ZeroTried == [i \in 1 .. NumEndpoints |-> 0]

\* no analyze_contract has looked up its network: the phase, the chain id
\* of the network row, the calls of get_web3_provider made and how many of
\* them with force_new=True, the chain id read for the verification, and
\* the error returned
NoNetwork ==
    [phase |-> "none", chain_id |-> 0, acquires |-> 0, forced |-> 0,
     seen |-> 0, error |-> "none"]

\* no check_network_status is running
NoStatus ==
    [phase |-> "none", network_id |-> 0, status |-> "none",
     error_type |-> "none", is_retryable |-> FALSE, chain_id |-> 0]

InitConn ==
    /\ web3_providers = [n \in NETWORK_CONFIGS |-> NoHandle]
    /\ pc = [p \in Procs |-> "idle"]
    /\ network_id = [p \in Procs |-> 0]
    /\ force_new = [p \in Procs |-> FALSE]
    /\ provider = [p \in Procs |-> NoHandle]
    /\ rpc_idx = [p \in Procs |-> 0]
    /\ attempt = [p \in Procs |-> 0]
    /\ last_error = [p \in Procs |-> "none"]
    /\ tried = [p \in Procs |-> ZeroTried]
    /\ lastTried = [p \in Procs |-> 0]
    /\ lastResult = [p \in Procs |-> "none"]
    /\ entry_cache = [p \in Procs |-> [n \in NETWORK_CONFIGS |-> NoHandle]]
    /\ probes = [p \in Procs |-> 0]
    /\ probed = [p \in Procs |-> "none"]
    /\ backoff = [p \in Procs |-> 0]
    /\ outcome = [p \in Procs |-> NoOutcome]
    /\ status = [p \in Procs |-> NoStatus]
    /\ network = NoNetwork

(* ------------------------------------------------------------------ *)
(* get_web3_provider                                                  *)
(* ------------------------------------------------------------------ *)
\* variant: the unknown chain id is reported like an unreachable network
UnsupportedKindAsConnection == "connection"

\* kind of the failure raised for a chain id missing from NETWORK_CONFIGS:
\* raise ValueError("Unsupported network ID ...")  (lines 98-99)
UnsupportedKind == "configuration"

\* entry of get_web3_provider(n, f): the configuration check, then the
\* test "not force_new and network_id in web3_providers"
Enter(p, n, f) ==
    /\ pc[p] = "idle"
    /\ network_id' = [network_id EXCEPT ![p] = n]
    /\ force_new' = [force_new EXCEPT ![p] = f]
    /\ IF n \notin NETWORK_CONFIGS
       THEN /\ pc' = [pc EXCEPT ![p] = "done"]
            /\ outcome' = [outcome EXCEPT ![p] =
                   [NoOutcome EXCEPT !.kind = UnsupportedKind,
                                     !.cause = "unsupported"]]
            /\ rpc_idx' = rpc_idx
       ELSE /\ pc' = [pc EXCEPT ![p] =
                   IF ~f /\ web3_providers[n] # NoHandle
                   THEN "read" ELSE "connect"]
            /\ rpc_idx' = [rpc_idx EXCEPT ![p] = 1]
            /\ outcome' = outcome
    /\ entry_cache' = [entry_cache EXCEPT ![p] = web3_providers]
    /\ UNCHANGED <<web3_providers, provider, attempt, last_error,
                   tried, lastTried, lastResult, probes, probed, backoff>>
    /\ UNCHANGED <<rateVars, scoreVars>>

\* get_web3_provider(n, f) is called by a caller other than
\* check_network_status
Call(p, n, f) ==
    /\ status[p].phase = "none"
    /\ Enter(p, n, f)
    /\ UNCHANGED <<status, network>>

\* provider = web3_providers[network_id]  (line 117); a key removed by
\* another caller since the membership test raises KeyError
ReadCached(p) ==
    /\ pc[p] = "read"
    /\ IF web3_providers[network_id[p]] = NoHandle
       THEN /\ pc' = [pc EXCEPT ![p] = "done"]
            /\ outcome' = [outcome EXCEPT ![p] =
                   [NoOutcome EXCEPT !.kind = "keyerror", !.cause = "read"]]
            /\ provider' = provider
       ELSE /\ pc' = [pc EXCEPT ![p] = "probe"]
            /\ provider' = [provider EXCEPT ![p] = web3_providers[network_id[p]]]
            /\ outcome' = outcome
    /\ UNCHANGED <<web3_providers, network_id, force_new, rpc_idx,
                   attempt, last_error, tried, lastTried, lastResult,
                   entry_cache, probes, probed, backoff>>
    /\ UNCHANGED <<rateVars, scoreVars, status, network>>

\* variant: the reconnection is made whatever the probe answers
AfterProbeReconnects(c) ==
    CASE c = "yes"   -> "connect"
      [] c = "no"    -> "connect"
      [] c = "raise" -> "evict"

\* where the cached-provider block goes after provider.is_connected()
\* answered c: return the provider, fall through, or the except clause
AfterProbe(c) ==
    CASE c = "yes"   -> "done"
      [] c = "no"    -> "connect"
      [] c = "raise" -> "evict"

\* try: if provider.is_connected(): return provider, True  (lines 118-120),
\* while the endpoint of the cached provider behaves as m
Probe(p, m) ==
    /\ pc[p] = "probe"
    /\ LET h == provider[p]
           b == Behaviour(m, h[1])
       IN /\ pc' = [pc EXCEPT ![p] = AfterProbe(b.connected)]
          /\ outcome' = [outcome EXCEPT ![p] =
                 IF AfterProbe(b.connected) = "done"
                 THEN [kind |-> "handle", handle |-> h, via |-> "cache",
                       reported |-> b.chain, syncing |-> b.syncing = "yes",
                       cause |-> "none"]
                 ELSE @]
    /\ probes' = [probes EXCEPT ![p] = @ + 1]
    /\ probed' = [probed EXCEPT ![p] = Behaviour(m, provider[p][1]).connected]
    /\ UNCHANGED <<web3_providers, network_id, force_new, provider,
                   rpc_idx, attempt, last_error, tried, lastTried, lastResult,
                   entry_cache, backoff>>
    /\ UNCHANGED <<rateVars, scoreVars, status, network>>

\* except Exception: del web3_providers[network_id]  (lines 121-122)
Evict(p) ==
    /\ pc[p] = "evict"
    /\ IF web3_providers[network_id[p]] = NoHandle
       THEN /\ pc' = [pc EXCEPT ![p] = "done"]
            /\ outcome' = [outcome EXCEPT ![p] =
                   [NoOutcome EXCEPT !.kind = "keyerror", !.cause = "del"]]
            /\ web3_providers' = web3_providers
       ELSE /\ pc' = [pc EXCEPT ![p] = "connect"]
            /\ web3_providers' =
                   [web3_providers EXCEPT ![network_id[p]] = NoHandle]
            /\ outcome' = outcome
    /\ UNCHANGED <<network_id, force_new, provider, rpc_idx,
                   attempt, last_error, tried, lastTried, lastResult,
                   entry_cache, probes, probed, backoff>>
    /\ UNCHANGED <<rateVars, scoreVars, status, network>>

\* The sync check of lines 165-170: 'Node is still syncing' is raised inside
\* a try whose except clause passes, like the error of a node that does not
\* support eth.syncing; whatever eth.syncing answers, the attempt goes on
SyncCheck(syncing) ==
    CASE syncing = "yes"   -> "ok"
      [] syncing = "raise" -> "ok"
      [] OTHER             -> "ok"

\* The body of the try block of one attempt (lines 128-177) against an
\* endpoint behaving as b, for requested chain n: "ok" or the failure raised
AttemptResult(b, n) ==
    IF b.connected = "raise" THEN "connect_raised"
    ELSE IF b.connected = "no" THEN "basic_connection_test_failed"
    ELSE IF b.block = "none" THEN "health_check_failed_no_block"
    ELSE IF b.chain # n THEN "health_check_failed_chain_id_mismatch"
    ELSE SyncCheck(b.syncing)

\* variant: an entry that is already cached is kept (setdefault)
CacheStoreKeepsOld(cache, n, h) ==
    IF cache[n] = NoHandle THEN [cache EXCEPT ![n] = h] ELSE cache

\* web3_providers[network_id] = provider  (line 176)
CacheStore(cache, n, h) == [cache EXCEPT ![n] = h]

\* last_error = e  (line 180)
LastError(old, e) == e

\* variant: one more round after the last attempt
SleepsAfterOneMore(a) == a < retry_count

\* does the except clause sleep after failed attempt a (line 181)
SleepsAfter(a) == a < retry_count - 1

\* time.sleep(1 * (attempt + 1))  (line 183)
BackoffDelay(a) == 1 * (a + 1)

\* one pass of the inner loop body on rpc_urls[rpc_idx] (lines 127-184);
\* after the last attempt on the last url, the raise of lines 186-190;
\* the endpoint behaves as m during the attempt
Attempt(p, m) ==
    /\ pc[p] = "connect"
    /\ LET n == network_id[p]
           e == <<n, rpc_idx[p]>>
           b == Behaviour(m, n)
           r == AttemptResult(b, n)
       IN /\ tried' = [tried EXCEPT ![p][rpc_idx[p]] = @ + 1]
          /\ lastTried' = [lastTried EXCEPT ![p] = rpc_idx[p]]
          /\ lastResult' = [lastResult EXCEPT ![p] = r]
          /\ IF r = "ok"
             THEN /\ web3_providers' = CacheStore(web3_providers, n, e)
                  /\ outcome' = [outcome EXCEPT ![p] =
                         [kind |-> "handle", handle |-> e, via |-> "fresh",
                          reported |-> b.chain, syncing |-> b.syncing = "yes",
                          cause |-> "none"]]
                  /\ pc' = [pc EXCEPT ![p] = "done"]
                  /\ UNCHANGED <<last_error, backoff, rpc_idx, attempt>>
             ELSE /\ web3_providers' = web3_providers
                  /\ last_error' = [last_error EXCEPT ![p] =
                         LastError(@, r)]
                  /\ IF SleepsAfter(attempt[p])
                     THEN /\ pc' = [pc EXCEPT ![p] = "sleep"]
                          /\ backoff' = [backoff EXCEPT ![p] =
                                 BackoffDelay(attempt[p])]
                          /\ UNCHANGED <<rpc_idx, attempt, outcome>>
                     ELSE IF rpc_idx[p] + 1 \in rpc_urls(n)
                     THEN /\ pc' = [pc EXCEPT ![p] = "connect"]
                          /\ rpc_idx' = [rpc_idx EXCEPT ![p] = @ + 1]
                          /\ attempt' = [attempt EXCEPT ![p] = 0]
                          /\ UNCHANGED <<backoff, outcome>>
                     ELSE /\ pc' = [pc EXCEPT ![p] = "done"]
                          /\ outcome' = [outcome EXCEPT ![p] =
                                 [NoOutcome EXCEPT !.kind = "connection",
                                                   !.cause = last_error'[p]]]
                          /\ UNCHANGED <<backoff, rpc_idx, attempt>>
    /\ UNCHANGED <<network_id, force_new, provider, entry_cache, probes,
                   probed>>
    /\ UNCHANGED <<rateVars, scoreVars, status, network>>

\* the sleep is over: continue with the next attempt on the same url
Sleep(p) ==
    /\ pc[p] = "sleep"
    /\ pc' = [pc EXCEPT ![p] = "connect"]
    /\ attempt' = [attempt EXCEPT ![p] = @ + 1]
    /\ UNCHANGED <<web3_providers, network_id, force_new, provider,
                   rpc_idx, last_error, tried, lastTried, lastResult,
                   entry_cache, probes, probed, backoff, outcome>>
    /\ UNCHANGED <<rateVars, scoreVars, status, network>>

\* the frame of a call of get_web3_provider is gone
LeaveFrame(p) ==
    /\ pc' = [pc EXCEPT ![p] = "idle"]
    /\ network_id' = [network_id EXCEPT ![p] = 0]
    /\ force_new' = [force_new EXCEPT ![p] = FALSE]
    /\ provider' = [provider EXCEPT ![p] = NoHandle]
    /\ rpc_idx' = [rpc_idx EXCEPT ![p] = 0]
    /\ attempt' = [attempt EXCEPT ![p] = 0]
    /\ last_error' = [last_error EXCEPT ![p] = "none"]
    /\ tried' = [tried EXCEPT ![p] = ZeroTried]
    /\ lastTried' = [lastTried EXCEPT ![p] = 0]
    /\ lastResult' = [lastResult EXCEPT ![p] = "none"]
    /\ entry_cache' = [entry_cache EXCEPT ![p] =
           [n \in NETWORK_CONFIGS |-> NoHandle]]
    /\ probes' = [probes EXCEPT ![p] = 0]
    /\ probed' = [probed EXCEPT ![p] = "none"]
    /\ backoff' = [backoff EXCEPT ![p] = 0]
    /\ outcome' = [outcome EXCEPT ![p] = NoOutcome]
    /\ UNCHANGED web3_providers

\* the caller has the result; the frame of the call is gone
Return(p) ==
    /\ pc[p] = "done"
    /\ status[p].phase = "none"
    /\ LeaveFrame(p)
    /\ UNCHANGED <<rateVars, scoreVars, status, network>>

(* ------------------------------------------------------------------ *)
(* check_network_status                                               *)
(* ------------------------------------------------------------------ *)
\* variant: the cached provider is trusted
StatusForceNewOff == FALSE

\* get_web3_provider(network_id, force_new=True)  (line 218)
StatusForceNew == TRUE

\* The words that the test of lines 293-301 looks for, as they occur in the
\* text of an error raised by the HTTP library: any of these sets
LibraryTexts ==
    {{}, {"timeout"}, {"connection"}, {"invalid json"},
     {"timeout", "connection"}}

\* The words of lines 293-301 that occur, in lower case, in the message of
\* the ConnectionError of lines 186-190 when the last error was cause:
\*   "Failed to connect to network N after trying all RPCs: " + str(last_error)
\* with last_error one of
\*   "Basic connection test failed"                              (line 142)
\*   "Health check failed: Failed to retrieve latest block"      (149, 156)
\*   "Health check failed: Chain ID mismatch. Expected N, got M" (154, 156)
\*   the text of the error raised by the library
Keywords(cause, text) ==
    CASE cause = "connect_raised"               -> text
      [] cause = "basic_connection_test_failed" -> {"connection"}
      [] OTHER                                  -> {}

\* error_type chosen by the outer except clause  (lines 288-301)
ErrorType(words) ==
    IF "timeout" \in words THEN "timeout"
    ELSE IF "connection" \in words THEN "connection"
    ELSE IF "invalid json" \in words THEN "response"
    ELSE "unknown"

\* the error dicts returned by check_network_status
ErrorReport(n, type, retryable, chain) ==
    [phase |-> "done", network_id |-> n, status |-> "error",
     error_type |-> type, is_retryable |-> retryable, chain_id |-> chain]

\* the dict with 'status': 'ok'  (lines 245-253)
OkReport(n, chain) ==
    [phase |-> "done", network_id |-> n, status |-> "ok",
     error_type |-> "none", is_retryable |-> FALSE, chain_id |-> chain]

\* check_network_status(n) is called: the configuration test of lines
\* 194-200, then get_web3_provider(network_id, force_new=True)
StatusCall(p, n) ==
    /\ status[p].phase = "none"
    /\ IF n \notin NETWORK_CONFIGS
       THEN /\ pc[p] = "idle"
            /\ status' = [status EXCEPT ![p] =
                   ErrorReport(n, "configuration", FALSE, 0)]
            /\ UNCHANGED <<acquireVars, rateVars, scoreVars>>
       ELSE /\ Enter(p, n, StatusForceNew)
            /\ status' = [status EXCEPT ![p] =
                   [NoStatus EXCEPT !.phase = "acquiring", !.network_id = n]]
    /\ UNCHANGED network

\* get_web3_provider has returned or raised: lines 220-309. An error of
\* get_web3_provider goes to the outer except clause, which reports it as
\* retryable under the error_type its message selects. With a provider,
\* block_number, gas_price and chain_id are read from its endpoint, which
\* behaves as m at that moment; a failing read raises an error with the
\* words text (the except clauses of lines 263-277 and 288-301 then give the
\* same error_type), a different chain id is the 'validation' report.
StatusFinish(p, m, text) ==
    /\ status[p].phase = "acquiring"
    /\ pc[p] = "done"
    /\ LET n == network_id[p]
           o == outcome[p]
           b == Behaviour(m, n)
       IN status' = [status EXCEPT ![p] =
              IF o.kind # "handle"
              THEN ErrorReport(n, ErrorType(Keywords(o.cause, text)), TRUE, 0)
              ELSE IF b.connected # "yes"
              THEN ErrorReport(n, ErrorType(text), TRUE, 0)
              ELSE IF b.chain # n
              THEN ErrorReport(n, "validation", FALSE, b.chain)
              ELSE OkReport(n, b.chain)]
    /\ UNCHANGED <<acquireVars, rateVars, scoreVars, network>>

\* the caller of check_network_status has the report
StatusReturn(p) ==
    /\ status[p].phase = "done"
    /\ status' = [status EXCEPT ![p] = NoStatus]
    /\ LeaveFrame(p)
    /\ UNCHANGED <<rateVars, scoreVars, network>>

(* ------------------------------------------------------------------ *)
(* Rate limiter (src/ai-analyzer.py)                                   *)
(* ------------------------------------------------------------------ *)
\* RateLimiter.max_requests and RateLimiter.time_window of the limiter of
\* the model (contract_limiter has 50 requests per 60 seconds), in ticks
MaxRequests == 2
TimeWindow == 3

\* the clock stops at MaxTime; at most MaxCalls calls enter the wrapper
MaxTime == 7
MaxCalls == 5

\* threads that call the rate-limited function
Threads == {1, 2}

\* the threads of the sequential specification
SeqThreads == {1}

InitRate ==
    /\ now = 0
    /\ requests = <<>>
    /\ rl_pc = [t \in Threads |-> "idle"]
    /\ rl_now = [t \in Threads |-> 0]
    /\ filtered = [t \in Threads |-> <<>>]
    /\ wake = [t \in Threads |-> 0]
    /\ entered = 0
    /\ invoked = [t \in 0 .. MaxTime |-> 0]
    /\ admitted = [t \in 0 .. MaxTime |-> 0]

\* now - req_time < timedelta(seconds=self.time_window)  (line 32)
InWindow(req_time, n) == n - req_time < TimeWindow

\* [req_time for req_time in self.requests if ...]  (lines 31-32)
Prune(reqs, n) == SelectSeq(reqs, LAMBDA r : InWindow(r, n))

\* min(self.requests)  (line 45)
RECURSIVE Oldest(_)
Oldest(reqs) ==
    IF Len(reqs) = 1 THEN Head(reqs)
    ELSE LET m == Oldest(Tail(reqs))
         IN IF Head(reqs) <= m THEN Head(reqs) ELSE m

\* variant: the window is taken one tick short
wait_timeShort(reqs, n) ==
    IF reqs = <<>> THEN 0
    ELSE LET next_window == Oldest(reqs) + TimeWindow - 1
         IN IF n >= next_window THEN 0 ELSE next_window - n

\* variant: no test "now >= next_window", the difference is returned as is
wait_timeSigned(reqs, n) ==
    IF reqs = <<>> THEN 0
    ELSE LET next_window == Oldest(reqs) + TimeWindow
         IN next_window - n

\* RateLimiter.wait_time  (lines 40-50)
wait_time(reqs, n) ==
    IF reqs = <<>> THEN 0
    ELSE LET next_window == Oldest(reqs) + TimeWindow
         IN IF n >= next_window THEN 0 ELSE next_window - n

\* the wrapper is called: allow_request reads the clock and builds the
\* pruned list  (lines 60, 29, 31-32)
WrapperCall(t) ==
    /\ rl_pc[t] = "idle"
    /\ entered < MaxCalls
    /\ now + TimeWindow <= MaxTime   \* a sleep ends before the clock stops
    /\ entered' = entered + 1
    /\ rl_now' = [rl_now EXCEPT ![t] = now]
    /\ filtered' = [filtered EXCEPT ![t] = Prune(requests, now)]
    /\ rl_pc' = [rl_pc EXCEPT ![t] = "assign"]
    /\ UNCHANGED <<now, requests, wake, invoked, admitted>>
    /\ UNCHANGED <<connVars, scoreVars>>

\* self.requests = <the pruned list>  (line 31)
AssignPruned(t) ==
    /\ rl_pc[t] = "assign"
    /\ requests' = filtered[t]
    /\ rl_pc' = [rl_pc EXCEPT ![t] = "check"]
    /\ UNCHANGED <<now, rl_now, filtered, wake, entered, invoked, admitted>>
    /\ UNCHANGED <<connVars, scoreVars>>

\* variant: the comparison is > instead of >=
DeniesOffByOne(reqs) == Len(reqs) > MaxRequests

\* if len(self.requests) >= self.max_requests: return False  (lines 34-35)
Denies(reqs) == Len(reqs) >= MaxRequests

CheckLimit(t) ==
    /\ rl_pc[t] = "check"
    /\ rl_pc' = [rl_pc EXCEPT ![t] =
           IF Denies(requests) THEN "denied" ELSE "append"]
    /\ UNCHANGED <<now, requests, rl_now, filtered, wake, entered, invoked, admitted>>
    /\ UNCHANGED <<connVars, scoreVars>>

\* self.requests.append(now); return True  (lines 37-38)
AppendRequest(t) ==
    /\ rl_pc[t] = "append"
    /\ requests' = Append(requests, rl_now[t])
    /\ admitted' = [admitted EXCEPT ![rl_now[t]] = @ + 1]
    /\ rl_pc' = [rl_pc EXCEPT ![t] = "invoke"]
    /\ UNCHANGED <<now, rl_now, filtered, wake, entered, invoked>>
    /\ UNCHANGED <<connVars, scoreVars>>

\* allow_request returned False: wait_time = limiter.wait_time(); sleep if
\* positive; the wrapper does not ask allow_request again  (lines 61-64)
Denied(t) ==
    /\ rl_pc[t] = "denied"
    /\ LET w == wait_time(requests, now)
       IN IF w > 0
          THEN /\ wake' = [wake EXCEPT ![t] = now + w]
               /\ rl_pc' = [rl_pc EXCEPT ![t] = "sleeping"]
          ELSE /\ wake' = wake
               /\ rl_pc' = [rl_pc EXCEPT ![t] = "invoke"]
    /\ UNCHANGED <<now, requests, rl_now, filtered, entered, invoked, admitted>>
    /\ UNCHANGED <<connVars, scoreVars>>

\* time.sleep(wait_time) is over
WakeUp(t) ==
    /\ rl_pc[t] = "sleeping"
    /\ now >= wake[t]
    /\ rl_pc' = [rl_pc EXCEPT ![t] = "invoke"]
    /\ UNCHANGED <<now, requests, rl_now, filtered, wake, entered, invoked, admitted>>
    /\ UNCHANGED <<connVars, scoreVars>>

\* return func(*args, **kwargs)  (line 65): the call is initiated now, and
\* the frame of the wrapper is gone
InvokeFunc(t) ==
    /\ rl_pc[t] = "invoke"
    /\ invoked' = [invoked EXCEPT ![now] = @ + 1]
    /\ rl_pc' = [rl_pc EXCEPT ![t] = "idle"]
    /\ wake' = [wake EXCEPT ![t] = 0]
    /\ UNCHANGED <<now, requests, rl_now, filtered, entered, admitted>>
    /\ UNCHANGED <<connVars, scoreVars>>

\* a tick of the clock: the steps of the wrapper take no time, a sleep
\* ends exactly when it is due
Tick ==
    /\ now < MaxTime
    /\ \A t \in Threads : rl_pc[t] \in {"idle", "sleeping"}
    /\ \A t \in Threads : rl_pc[t] = "sleeping" => wake[t] > now
    /\ now' = now + 1
    /\ UNCHANGED <<requests, rl_pc, rl_now, filtered, wake, entered, invoked, admitted>>
    /\ UNCHANGED <<connVars, scoreVars>>

(* ------------------------------------------------------------------ *)
(* Risk scoring (src/security_scanner.py, src/ai-analyzer.py)          *)
(* ------------------------------------------------------------------ *)
\* What the pattern checks of analyze_contract see in source_code:
\*   call_value  : "call.value" in source_code
\*   guard       : "ReentrancyGuard" in source_code
\*   low_call    : re.search(r'\.call\{.*\}\(".*"\)', source_code)
\*   require_call: re.search(r'require\(.*\.call', source_code)
\*   safemath    : "SafeMath" in source_code
\*   tx_origin   : "tx.origin" in source_code
Sources ==
    [call_value : BOOLEAN, guard : BOOLEAN, low_call : BOOLEAN,
     require_call : BOOLEAN, safemath : BOOLEAN, tx_origin : BOOLEAN]

\* a finding: its "type", and who produced it (stands for the description)
Finding(t, by) == [type |-> t, by |-> by]

\* the "type" of a finding whose dict has no "type" key: the prompt of
\* analyze_smart_contract (lines 74-81) fixes no key names for the findings
NoTypeKey == "(no type key)"

\* risk_score values an inference response may carry (thousandths)
AIScores == {-500, 0, 500, 900, 1000, 1500}

\* "vulnerabilities" lists an inference response may carry
AIVulnLists ==
    {<<>>, <<Finding("ai_reported", "ai")>>, <<Finding("reentrancy", "ai")>>,
     <<Finding("ai_reported", "ai"), Finding("tx_origin", "ai")>>,
     <<Finding("ai_reported", "ai"), Finding(NoTypeKey, "ai")>>}

\* a JSON object: the set of its keys and the values of the present ones
Dict(ks, score, items) == [keys |-> ks, risk_score |-> score, items |-> items]

\* the dict returned by the except clause of analyze_smart_contract
\* (lines 86-91)
ContractPlaceholder == Dict({"error", "vulnerabilities", "risk_score"}, 1000, <<>>)

\* the dict returned by the except clause of analyze_transaction_patterns
\* (lines 111-116)
TransactionPlaceholder ==
    Dict({"error", "suspicious_patterns", "risk_score"}, 500, <<>>)

\* json.loads(response...) of a completed inference call: risk_score and
\* the list may be missing
ParsedResponses(listKey) ==
    { Dict(ks, sc, IF listKey \in ks THEN l ELSE <<>>) :
        ks \in SUBSET {"risk_score", listKey},
        sc \in AIScores, l \in AIVulnLists }

\* d.get("risk_score", dflt)
GetScore(d, dflt) == IF "risk_score" \in d.keys THEN d.risk_score ELSE dflt

\* variant: the list is taken in reverse order
GetItemsReversed(d, listKey) ==
    IF listKey \in d.keys
    THEN [i \in 1 .. Len(d.items) |-> d.items[Len(d.items) + 1 - i]]
    ELSE <<>>

\* d.get(listKey, [])
GetItems(d, listKey) == IF listKey \in d.keys THEN d.items ELSE <<>>

Min(a, b) == IF a <= b THEN a ELSE b
Max(a, b) == IF a >= b THEN a ELSE b

\* w * x for a weight w and a score x, both in thousandths
Times(w, x) == (w * x) \div 1000

\* variant: the reentrancy check ignores ReentrancyGuard
StaticChecksNoGuard(src) ==
    << <<src.call_value, "reentrancy", 400>>,
       <<src.low_call /\ ~src.require_call, "unchecked_return", 300>>,
       <<~src.safemath, "integer_overflow", 200>>,
       <<src.tx_origin, "tx_origin", 400>> >>

\* the four pattern checks of analyze_contract (lines 88-123), in order:
\* <<fires, type, increment>>
StaticChecks(src) ==
    << <<src.call_value /\ ~src.guard, "reentrancy", 400>>,
       <<src.low_call /\ ~src.require_call, "unchecked_return", 300>>,
       <<~src.safemath, "integer_overflow", 200>>,
       <<src.tx_origin, "tx_origin", 400>> >>

\* vulnerabilities after the static checks (lines 85-123)
RECURSIVE StaticVulns(_)
StaticVulns(checks) ==
    IF checks = <<>> THEN <<>>
    ELSE (IF Head(checks)[1]
          THEN <<Finding(Head(checks)[2], "static")>> ELSE <<>>)
         \o StaticVulns(Tail(checks))

\* risk_score after the static checks (lines 86-123)
RECURSIVE StaticScore(_)
StaticScore(checks) ==
    IF checks = <<>> THEN 0
    ELSE (IF Head(checks)[1] THEN Head(checks)[3] ELSE 0)
         + StaticScore(Tail(checks))

\* does vuln["type"] (line 201) raise KeyError for one of the findings
RaisesKeyError(vulns) == \E i \in 1 .. Len(vulns) : vulns[i].type = NoTypeKey

\* generate_recommendations (lines 198-209), for findings that have a type
RECURSIVE generate_recommendations(_)
generate_recommendations(vulns) ==
    IF vulns = <<>> THEN <<>>
    ELSE (IF Head(vulns).type \in
                {"reentrancy", "unchecked_return", "integer_overflow",
                 "tx_origin"}
          THEN <<Head(vulns).type>> ELSE <<>>)
         \o generate_recommendations(Tail(vulns))

\* is the result of the inference call combined: "error" not in ai_analysis
\* (line 127 and line 168)
Combines(ai) == "error" \notin ai.keys

\* variant: the static score enters the weighted sum without min(.., 1.0)
ContractScoreUncapped(local, ai) ==
    IF Combines(ai)
    THEN Times(600, GetScore(ai, 500)) + Times(400, local)
    ELSE local

\* risk_score after lines 127-132 of analyze_contract
ContractScore(local, ai) ==
    IF Combines(ai)
    THEN Times(600, GetScore(ai, 500)) + Times(400, Min(local, 1000))
    ELSE local

\* "risk_score": min(risk_score, 1.0)  (line 136 and line 186)
FinalScore(score) == Min(score, 1000)

\* variant: the weighted sum is capped at 1.0 but not raised to 0.0
combined_risk_scoreNoFloor(code_analysis, transaction_analysis, weights) ==
    IF {"code_analysis", "transaction_analysis"} \subseteq DOMAIN weights
    THEN LET code_score == GetScore(code_analysis, 500)
             transaction_score == GetScore(transaction_analysis, 500)
             combined_score == Times(weights["code_analysis"], code_score)
                 + Times(weights["transaction_analysis"], transaction_score)
         IN Min(1000, combined_score)
    ELSE 700

\* calculate_combined_risk_score from the try block on (lines 130-141);
\* a key missing from weights raises KeyError inside the try block
calculate_combined_risk_score(code_analysis, transaction_analysis, weights) ==
    IF {"code_analysis", "transaction_analysis"} \subseteq DOMAIN weights
    THEN LET code_score == GetScore(code_analysis, 500)
             transaction_score == GetScore(transaction_analysis, 500)
             combined_score == Times(weights["code_analysis"], code_score)
                 + Times(weights["transaction_analysis"], transaction_score)
         IN Min(1000, Max(0, combined_score))
    ELSE 700

\* weights passed by check_wallet_safety (line 181)
WalletWeights ==
    [k \in {"code_analysis", "transaction_analysis"} |->
        IF k = "code_analysis" THEN 400 ELSE 600]

\* check_contract_interactions (lines 190-192): a stub
check_contract_interactions == 0

NoSource ==
    [call_value |-> FALSE, guard |-> FALSE, low_call |-> FALSE,
     require_call |-> FALSE, safemath |-> FALSE, tx_origin |-> FALSE]

NoDict == Dict({}, 0, <<>>)

\* no inference request of the scan has been built
NoPrompt == "(no request)"

\* the default of the parameter network of analyze_smart_contract
None == [name |-> "(None)"]

\* the network named in the system prompt:
\* network['name'] if network else 'Unknown'
SystemPromptNetwork(net) == IF net = None THEN "Unknown" ELSE net.name

\* Network.name of the row with chain id c, as init_networks stores it
NetworkName(c) ==
    CASE c = 1 -> "Ethereum Mainnet"
      [] c = 56 -> "BSC Mainnet"
      [] OTHER -> "(row outside NETWORK_CONFIGS)"

NoResult == [risk_score |-> 0, items |-> <<>>, recommendations |-> <<>>]

\* no scan of a contract is running or finished
NoScan ==
    /\ scan_pc = "idle"
    /\ source_code = NoSource
    /\ vulnerabilities = <<>>
    /\ risk_score = 0
    /\ ai_analysis = NoDict
    /\ prompt_network = NoPrompt
    /\ scan_result = NoResult

\* no check of a wallet is running or finished
NoWalletCheck ==
    /\ wallet_pc = "idle"
    /\ flags = <<>>
    /\ wallet_score = 0
    /\ tx_analysis = NoDict
    /\ wallet_result = NoResult

\* the weights used when the caller passes none (lines 124-128)
DefaultWeights ==
    [k \in {"code_analysis", "transaction_analysis"} |->
        IF k = "code_analysis" THEN 600 ELSE 400]

\* if weights is None: weights = {...}  (lines 124-128)
EffectiveWeights(given, weights) == IF given THEN weights ELSE DefaultWeights

\* weights a caller can pass: summing to 1, to more, to less, with a
\* negative weight, and with keys missing
WeightChoices ==
    {DefaultWeights, WalletWeights,
     [k \in {"code_analysis", "transaction_analysis"} |-> 1000],
     [k \in {"code_analysis", "transaction_analysis"} |-> 200],
     [k \in {"code_analysis", "transaction_analysis"} |->
         IF k = "code_analysis" THEN -500 ELSE 200],
     [k \in {"code_analysis"} |-> 600],
     [k \in {"transaction_analysis", "other"} |-> 400]}

\* the analyses a caller can pass: with a risk_score or without
Analyses ==
    {Dict({"risk_score"}, s, <<>>) : s \in AIScores} \cup {Dict({}, 0, <<>>)}

\* calculate_combined_risk_score has not been called
NoCombination ==
    [called |-> FALSE, code_analysis |-> NoDict, transaction_analysis |-> NoDict,
     given |-> FALSE, weights |-> DefaultWeights, result |-> 0]

InitScore == NoScan /\ NoWalletCheck /\ combination = NoCombination

\* one call calculate_combined_risk_score(c, t) or
\* calculate_combined_risk_score(c, t, weights=w)  (lines 118-141)
CombineScores(c, t, given, w) ==
    /\ combination' =
           [called |-> TRUE, code_analysis |-> c, transaction_analysis |-> t,
            given |-> given, weights |-> EffectiveWeights(given, w),
            result |-> calculate_combined_risk_score(
                           c, t, EffectiveWeights(given, w))]
    /\ UNCHANGED <<contractVars, walletVars>>
    /\ UNCHANGED <<connVars, rateVars>>

\* analyze_contract has verified the network and runs the static checks
\* (lines 84-123); requests are served one at a time, and the result of
\* the request before is with its caller. Where the network phase is not
\* looked at, the scan starts here.
StaticAnalysis(src) ==
    /\ scan_pc \in {"idle", "done", "raised", "verified"}
    /\ wallet_pc \in {"idle", "done"}
    /\ source_code' = src
    /\ vulnerabilities' = StaticVulns(StaticChecks(src))
    /\ risk_score' = StaticScore(StaticChecks(src))
    /\ scan_pc' = "ai"
    /\ ai_analysis' = NoDict
    /\ prompt_network' = NoPrompt
    /\ scan_result' = NoResult
    /\ wallet_pc' = "idle"
    /\ flags' = <<>>
    /\ wallet_score' = 0
    /\ tx_analysis' = NoDict
    /\ wallet_result' = NoResult
    /\ UNCHANGED <<connVars, rateVars, combination>>

\* ai_analysis = analyze_smart_contract(source_code)  (line 126): the
\* inference call completes with response r ...
AIAnalysis(r) ==
    /\ scan_pc = "ai"
    /\ ai_analysis' = r
    /\ prompt_network' = SystemPromptNetwork(None)
    /\ scan_pc' = "combine"
    /\ UNCHANGED <<source_code, vulnerabilities, risk_score, scan_result>>
    /\ UNCHANGED walletVars
    /\ UNCHANGED <<connVars, rateVars, combination>>

\* ... or fails, and analyze_smart_contract returns its placeholder
AIFailure ==
    /\ scan_pc = "ai"
    /\ ai_analysis' = ContractPlaceholder
    /\ prompt_network' = SystemPromptNetwork(None)
    /\ scan_pc' = "combine"
    /\ UNCHANGED <<source_code, vulnerabilities, risk_score, scan_result>>
    /\ UNCHANGED walletVars
    /\ UNCHANGED <<connVars, rateVars, combination>>

\* lines 127-138 of analyze_contract; the KeyError of generate_recommendations
\* is not caught and leaves analyze_contract as an exception
CombineContract ==
    /\ scan_pc = "combine"
    /\ LET vulns == IF Combines(ai_analysis)
                    THEN vulnerabilities
                         \o GetItems(ai_analysis, "vulnerabilities")
                    ELSE vulnerabilities
           score == ContractScore(risk_score, ai_analysis)
       IN /\ vulnerabilities' = vulns
          /\ risk_score' = score
          /\ IF RaisesKeyError(vulns)
             THEN /\ scan_result' = scan_result
                  /\ scan_pc' = "raised"
             ELSE /\ scan_result' =
                         [risk_score |-> FinalScore(score),
                          items |-> vulns,
                          recommendations |-> generate_recommendations(vulns)]
                  /\ scan_pc' = "done"
    /\ UNCHANGED <<source_code, ai_analysis, prompt_network>>
    /\ UNCHANGED walletVars
    /\ UNCHANGED <<connVars, rateVars, combination>>

\* check_wallet_safety up to the inference call (lines 143-164)
WalletHeuristic ==
    /\ wallet_pc \in {"idle", "done"}
    /\ scan_pc \in {"idle", "done", "raised"}
    /\ LET interaction_risk == check_contract_interactions
       IN IF interaction_risk > 0
          THEN /\ flags' = <<Finding("suspicious_interactions", "static")>>
               /\ wallet_score' = 0 + interaction_risk
          ELSE /\ flags' = <<>>
               /\ wallet_score' = 0
    /\ wallet_pc' = "ai"
    /\ tx_analysis' = NoDict
    /\ wallet_result' = NoResult
    /\ scan_pc' = "idle"
    /\ source_code' = NoSource
    /\ vulnerabilities' = <<>>
    /\ risk_score' = 0
    /\ ai_analysis' = NoDict
    /\ prompt_network' = NoPrompt
    /\ scan_result' = NoResult
    /\ UNCHANGED <<connVars, rateVars, combination>>

\* tx_analysis = analyze_transaction_patterns(...)  (line 167) completes ...
TxAnalysis(r) ==
    /\ wallet_pc = "ai"
    /\ tx_analysis' = r
    /\ wallet_pc' = "combine"
    /\ UNCHANGED <<flags, wallet_score, wallet_result>>
    /\ UNCHANGED contractVars
    /\ UNCHANGED <<connVars, rateVars, combination>>

\* ... or fails, and analyze_transaction_patterns returns its placeholder
TxFailure ==
    /\ wallet_pc = "ai"
    /\ tx_analysis' = TransactionPlaceholder
    /\ wallet_pc' = "combine"
    /\ UNCHANGED <<flags, wallet_score, wallet_result>>
    /\ UNCHANGED contractVars
    /\ UNCHANGED <<connVars, rateVars, combination>>

\* the "ai_detected_pattern" flags of lines 170-175
AIFlags(patterns) ==
    [i \in 1 .. Len(patterns) |-> Finding("ai_detected_pattern", "ai")]

\* lines 168-188 of check_wallet_safety
CombineWallet ==
    /\ wallet_pc = "combine"
    /\ LET fl == IF Combines(tx_analysis)
                 THEN flags \o AIFlags(GetItems(tx_analysis, "suspicious_patterns"))
                 ELSE flags
           score == IF Combines(tx_analysis)
                    THEN calculate_combined_risk_score(
                             Dict({"risk_score"}, wallet_score, <<>>),
                             tx_analysis, WalletWeights)
                    ELSE wallet_score
       IN /\ flags' = fl
          /\ wallet_score' = score
          /\ wallet_result' = [risk_score |-> FinalScore(score), items |-> fl,
                               recommendations |-> <<>>]
    /\ wallet_pc' = "done"
    /\ UNCHANGED tx_analysis
    /\ UNCHANGED contractVars
    /\ UNCHANGED <<connVars, rateVars, combination>>

(* ------------------------------------------------------------------ *)
(* analyze_contract: the network phase (lines 9-57)                   *)
(* ------------------------------------------------------------------ *)
\* the error dicts of lines 12-16, 26-31, 37-42, 44-49 and 52-57:
\* "risk_score": 1.0, "vulnerabilities": [] and their recommendations
ErrorResult(hints) ==
    [risk_score |-> 1000, items |-> <<>>, recommendations |-> hints]

\* the recommendations of the error dict returned for error e
ErrorHints(e) ==
    CASE e = "invalid_network"        -> <<>>
      [] e = "no_reliable_connection" ->
             <<"Try again later or switch to a different network">>
      [] e = "chain_id_mismatch"      -> <<"Verify network configuration">>
      [] e = "chain_id_unverified"    -> <<"Check network connectivity">>
      [] e = "network_error"          ->
             <<"Verify network availability", "Check RPC endpoint status">>

\* is_connected as get_web3_provider returns it: both of its returns are
\* "return provider, True" (src/app.py lines 120 and 177)
is_connected(o) == o.kind = "handle"

\* variant: the chain id read from the provider is not compared
VerifyChainUncompared(b, c) ==
    IF b.connected # "yes" THEN "chain_id_unverified"
    ELSE "verified"

\* Verify chain ID (lines 33-49) on a provider whose endpoint behaves as b,
\* for a network row with chain id c: reading w3.eth.chain_id raises, or
\* the chain id differs, or it is verified
VerifyChain(b, c) ==
    IF b.connected # "yes" THEN "chain_id_unverified"
    ELSE IF b.chain # c THEN "chain_id_mismatch"
    ELSE "verified"

\* analyze_contract(source_code, network_id) is called and looks up its
\* network row (lines 10-16): no row, or a row with chain id c
ScanCall(found, c) ==
    /\ scan_pc \in {"idle", "done", "raised", "error"}
    /\ wallet_pc \in {"idle", "done"}
    /\ network.phase \in {"none", "verified", "error"}
    /\ IF found
       THEN /\ network' = [NoNetwork EXCEPT !.phase = "resolved", !.chain_id = c]
            /\ scan_pc' = "network"
            /\ scan_result' = NoResult
       ELSE /\ network' = [NoNetwork EXCEPT !.phase = "error",
                                            !.error = "invalid_network"]
            /\ scan_pc' = "error"
            /\ scan_result' = ErrorResult(ErrorHints("invalid_network"))
    /\ source_code' = NoSource
    /\ vulnerabilities' = <<>>
    /\ risk_score' = 0
    /\ ai_analysis' = NoDict
    /\ prompt_network' = NoPrompt
    /\ wallet_pc' = "idle"
    /\ flags' = <<>>
    /\ wallet_score' = 0
    /\ tx_analysis' = NoDict
    /\ wallet_result' = NoResult
    /\ UNCHANGED <<acquireVars, status, rateVars, combination>>

\* get_web3_provider(network.chain_id)  (line 20), or, after a provider
\* that came back with is_connected false,
\* get_web3_provider(network.chain_id, force_new=True)  (line 24)
ScanAcquire(p) ==
    /\ network.phase \in {"resolved", "retry"}
    /\ status[p].phase = "none"
    /\ Enter(p, network.chain_id, network.phase = "retry")
    /\ network' = [network EXCEPT
           !.phase = "acquiring",
           !.acquires = @ + 1,
           !.forced = IF network.phase = "retry" THEN @ + 1 ELSE @]
    /\ UNCHANGED status

\* get_web3_provider has returned or raised (lines 20-57). Whatever it
\* raises goes to the except clause of lines 51-57. With a provider, the
\* test "if not is_connected" of lines 22 and 25, then the chain id is read
\* from the endpoint of the provider, which behaves as m at that moment.
ScanVerify(p, m) ==
    /\ network.phase = "acquiring"
    /\ pc[p] = "done"
    /\ LET o == outcome[p]
           c == network.chain_id
           b == Behaviour(m, c)
           v == IF o.kind # "handle" THEN "network_error"
                ELSE IF ~is_connected(o)
                THEN (IF network.forced = 0 THEN "retry"
                      ELSE "no_reliable_connection")
                ELSE VerifyChain(b, c)
       IN /\ network' = [network EXCEPT
                 !.phase = IF v \in {"verified", "retry"} THEN v ELSE "error",
                 !.seen = IF o.kind = "handle" /\ is_connected(o)
                             /\ b.connected = "yes"
                          THEN b.chain ELSE 0,
                 !.error = IF v \in {"verified", "retry"} THEN "none" ELSE v]
          /\ scan_pc' = IF v = "verified" THEN "verified"
                        ELSE IF v = "retry" THEN "network" ELSE "error"
          /\ scan_result' = IF v \in {"verified", "retry"} THEN scan_result
                            ELSE ErrorResult(ErrorHints(v))
    /\ LeaveFrame(p)
    /\ UNCHANGED <<source_code, vulnerabilities, risk_score, ai_analysis,
                   prompt_network>>
    /\ UNCHANGED <<walletVars, combination, rateVars, status>>

\* the static checks of a scan whose network is verified
ScanStatic(src) ==
    /\ scan_pc = "verified"
    /\ StaticAnalysis(src)

(* ------------------------------------------------------------------ *)
(* Specifications                                                     *)
(* ------------------------------------------------------------------ *)
vars == <<connVars, rateVars, scoreVars>>

Init == InitConn /\ InitRate /\ InitScore

\* the connection manager, one caller at a time
Next ==
    \/ \E p \in SeqProcs, n \in RequestIds, f \in BOOLEAN : Call(p, n, f)
    \/ \E p \in SeqProcs : ReadCached(p)
    \/ \E p \in SeqProcs, m \in ModeNames : Probe(p, m)
    \/ \E p \in SeqProcs : Evict(p)
    \/ \E p \in SeqProcs, m \in ModeNames : Attempt(p, m)
    \/ \E p \in SeqProcs : Sleep(p)
    \/ \E p \in SeqProcs : Return(p)

Spec == Init /\ [][Next]_vars

\* the same, where the caller keeps running: every request to an endpoint
\* returns or raises within its timeout (request_kwargs, lines 129-137)
SpecFair == Spec /\ WF_vars(Next)

\* the connection manager and the status probe, one caller at a time
StatusNext ==
    \/ \E p \in SeqProcs, n \in RequestIds, f \in BOOLEAN : Call(p, n, f)
    \/ \E p \in SeqProcs, n \in RequestIds : StatusCall(p, n)
    \/ \E p \in SeqProcs : ReadCached(p)
    \/ \E p \in SeqProcs, m \in ModeNames : Probe(p, m)
    \/ \E p \in SeqProcs : Evict(p)
    \/ \E p \in SeqProcs, m \in ModeNames : Attempt(p, m)
    \/ \E p \in SeqProcs : Sleep(p)
    \/ \E p \in SeqProcs : Return(p)
    \/ \E p \in SeqProcs, m \in ModeNames, text \in LibraryTexts :
           StatusFinish(p, m, text)
    \/ \E p \in SeqProcs : StatusReturn(p)

SpecStatus == Init /\ [][StatusNext]_vars

\* the chain id that concurrent callers ask for
SharedChain == CHOOSE n \in NETWORK_CONFIGS : TRUE

\* the endpoint behaviours that differ in what they do to the cache: a
\* probe that answers, answers no, or raises, and a foreign chain id
ConcModes == {"healthy", "down", "broken", "wrongchain"}

\* get_web3_provider called from several threads for one chain id:
\* web3_providers is a module-level dict (lines 93-94) used without a lock
ConcNext ==
    \/ \E p \in Procs, f \in BOOLEAN : Call(p, SharedChain, f)
    \/ \E p \in Procs : ReadCached(p)
    \/ \E p \in Procs, m \in ConcModes : Probe(p, m)
    \/ \E p \in Procs : Evict(p)
    \/ \E p \in Procs, m \in ConcModes : Attempt(p, m)
    \/ \E p \in Procs : Sleep(p)
    \/ \E p \in Procs : Return(p)

SpecConc == Init /\ [][ConcNext]_vars

\* the rate-limited wrapper, one caller at a time
RateNext ==
    \/ \E t \in SeqThreads : WrapperCall(t)
    \/ \E t \in SeqThreads : AssignPruned(t)
    \/ \E t \in SeqThreads : CheckLimit(t)
    \/ \E t \in SeqThreads : AppendRequest(t)
    \/ \E t \in SeqThreads : Denied(t)
    \/ \E t \in SeqThreads : WakeUp(t)
    \/ \E t \in SeqThreads : InvokeFunc(t)
    \/ Tick

SpecRate == Init /\ [][RateNext]_vars

\* the same, where a runnable thread runs and the clock goes on
SpecRateFair == SpecRate /\ WF_vars(RateNext)

\* the rate-limited wrapper called from several threads: contract_limiter
\* is one object shared by all callers (lines 52-54), and allow_request
\* takes no lock
ConcRateNext ==
    \/ \E t \in Threads : WrapperCall(t)
    \/ \E t \in Threads : AssignPruned(t)
    \/ \E t \in Threads : CheckLimit(t)
    \/ \E t \in Threads : AppendRequest(t)
    \/ \E t \in Threads : Denied(t)
    \/ \E t \in Threads : WakeUp(t)
    \/ \E t \in Threads : InvokeFunc(t)
    \/ Tick

SpecRateConc == Init /\ [][ConcRateNext]_vars

\* the scoring of contracts and wallets, one request at a time
ScoreNext ==
    \/ \E src \in Sources : StaticAnalysis(src)
    \/ \E r \in ParsedResponses("vulnerabilities") : AIAnalysis(r)
    \/ AIFailure
    \/ CombineContract
    \/ WalletHeuristic
    \/ \E r \in ParsedResponses("suspicious_patterns") : TxAnalysis(r)
    \/ TxFailure
    \/ CombineWallet

SpecScore == Init /\ [][ScoreNext]_vars

\* contract scans from the lookup of the network on, one at a time
ScanNext ==
    \/ \E found \in BOOLEAN, c \in RequestIds : ScanCall(found, c)
    \/ \E p \in SeqProcs : ScanAcquire(p)
    \/ \E p \in SeqProcs : ReadCached(p)
    \/ \E p \in SeqProcs, m \in ModeNames : Probe(p, m)
    \/ \E p \in SeqProcs : Evict(p)
    \/ \E p \in SeqProcs, m \in ModeNames : Attempt(p, m)
    \/ \E p \in SeqProcs : Sleep(p)
    \/ \E p \in SeqProcs, m \in ModeNames : ScanVerify(p, m)
    \/ \E src \in Sources : ScanStatic(src)
    \/ \E r \in ParsedResponses("vulnerabilities") : AIAnalysis(r)
    \/ AIFailure
    \/ CombineContract

SpecScan == Init /\ [][ScanNext]_vars

\* calls of the score combination by any caller
CombineNext ==
    \E c \in Analyses, t \in Analyses, given \in BOOLEAN, w \in WeightChoices :
        CombineScores(c, t, given, w)

SpecCombine == Init /\ [][CombineNext]_vars

(* ------------------------------------------------------------------ *)
(* Properties                                                         *)
(* ------------------------------------------------------------------ *)
\* the call of caller p has ended with a handle
ReturnedHandle(p) == pc[p] = "done" /\ outcome[p].kind = "handle"

\* C1: every handle returned by acquire(chainId, forceRefresh), from the
\* cache or from a fresh attempt, belongs to an endpoint that reports the
\* requested chainId when it is returned.
C1_NoCrossChainHandle ==
    \A p \in Procs :
        ReturnedHandle(p) => outcome[p].reported = network_id[p]

\* number of calls of the wrapped function initiated in the window of
\* length TimeWindow that ends at time t
RECURSIVE InitiatedFrom(_, _)
InitiatedFrom(u, t) ==
    IF u > t THEN 0
    ELSE (IF t - u < TimeWindow THEN invoked[u] ELSE 0) + InitiatedFrom(u + 1, t)

InitiatedInWindow(t) == InitiatedFrom(0, t)

\* C2: in any trailing time_window at most max_requests calls of the wrapped
\* inference function are initiated, denied-and-delayed calls included.
C2_AtMostMaxRequestsPerWindow ==
    \A t \in 0 .. MaxTime : InitiatedInWindow(t) <= MaxRequests

\* the local subtotal of a source by the increments 0.4, 0.3, 0.2, 0.4
LocalSubtotal(src) ==
    (IF src.call_value /\ ~src.guard THEN 400 ELSE 0)
    + (IF src.low_call /\ ~src.require_call THEN 300 ELSE 0)
    + (IF ~src.safemath THEN 200 ELSE 0)
    + (IF src.tx_origin THEN 400 ELSE 0)

Clamp01(x) == IF x < 0 THEN 0 ELSE IF x > 1000 THEN 1000 ELSE x

\* 0.6 * ai + 0.4 * min(local, 1.0), clamped to [0,1]
WeightedContractScore(local, ai) ==
    Clamp01((6 * ai + 4 * (IF local < 1000 THEN local ELSE 1000)) \div 10)

\* the inference call of the scan returned, without error, a score in [0,1]
AIScoreInRange ==
    /\ "error" \notin ai_analysis.keys
    /\ "risk_score" \in ai_analysis.keys
    /\ ai_analysis.risk_score \in 0 .. 1000

\* C3: for every local subtotal >= 0 and every AI score in [0,1] returned
\* without error, the final score of scoreContract is
\* 0.6*aiScore + 0.4*min(localScore, 1.0) clamped to [0,1], and lies in [0,1].
C3_CombinedScore ==
    (scan_pc = "done" /\ AIScoreInRange) =>
        /\ scan_result.risk_score =
               WeightedContractScore(LocalSubtotal(source_code),
                                     ai_analysis.risk_score)
        /\ scan_result.risk_score \in 0 .. 1000

\* local 1.3 and ai 0.9 give 0.94
C3_Witness ==
    /\ scan_pc = "done"
    /\ AIScoreInRange
    /\ LocalSubtotal(source_code) = 1300
    /\ ai_analysis.risk_score = 900
    /\ scan_result.risk_score = 940

\* C4: every ScoreResult returned by scoreContract or scoreWallet has a
\* score in [0,1], whatever risk_score the inference endpoint returned.
C4_ScoreInUnitInterval ==
    /\ scan_pc = "done" => scan_result.risk_score \in 0 .. 1000
    /\ wallet_pc = "done" => wallet_result.risk_score \in 0 .. 1000

\* caller p is in a call for a chain id that is not configured
UnknownChainCall(p) == pc[p] # "idle" /\ network_id[p] \notin NETWORK_CONFIGS

\* C5: acquire for a chain id that is not in the configuration ends with a
\* failure of the configuration kind, makes no endpoint attempt and no probe,
\* and leaves the handle cache unchanged.
C5_UnknownChainIsConfigurationError ==
    /\ [](\A p \in Procs :
            UnknownChainCall(p) =>
                /\ pc[p] = "done"
                /\ outcome[p].kind = "configuration"
                /\ probes[p] = 0
                /\ tried[p] = ZeroTried
                /\ web3_providers = entry_cache[p])
    /\ [][\A p \in Procs :
            (pc[p] = "idle" /\ pc'[p] # "idle"
                /\ network_id'[p] \notin NETWORK_CONFIGS)
            => /\ pc'[p] = "done"
               /\ web3_providers' = web3_providers]_vars

\* an unknown chain id was refused while a handle was cached
C5_Witness ==
    \E p \in Procs :
        /\ UnknownChainCall(p)
        /\ outcome[p].kind = "configuration"
        /\ \E n \in NETWORK_CONFIGS : web3_providers[n] # NoHandle

\* the call of caller p has ended with a handle from a fresh attempt
FreshHandle(p) == ReturnedHandle(p) /\ outcome[p].via = "fresh"

\* C6: off the cache-hit path acquire returns the handle of the first
\* endpoint, in configured order, that passes an attempt: every earlier
\* endpoint failed retry_count attempts, no later endpoint was tried, and
\* the cache entry for chainId is exactly the returned handle.
C6_OrderedFallback ==
    \A p \in Procs :
        /\ lastResult[p] = "ok" => FreshHandle(p)
        /\ FreshHandle(p) =>
               LET k == outcome[p].handle[2]
               IN /\ outcome[p].handle[1] = network_id[p]
                  /\ lastResult[p] = "ok"
                  /\ lastTried[p] = k
                  /\ \A i \in 1 .. NumEndpoints :
                        /\ i < k => tried[p][i] = retry_count
                        /\ i = k => tried[p][i] \in 1 .. retry_count
                        /\ i > k => tried[p][i] = 0
                  /\ web3_providers[network_id[p]] = outcome[p].handle

\* the first endpoint failed all its retries, the second succeeded, and the
\* handle of the first endpoint that was cached before is replaced
C6_Witness ==
    \E p \in Procs :
        /\ FreshHandle(p)
        /\ outcome[p].handle[2] = 2
        /\ tried[p][1] = retry_count
        /\ entry_cache[p][network_id[p]] = <<network_id[p], 1>>
        /\ web3_providers[network_id[p]] = <<network_id[p], 2>>

\* C7: when every endpoint exhausted its retries, acquire fails with the
\* last failure observed and the cache holds no handle for chainId, also
\* when one was cached before the call.
C7_ExhaustedLeavesNoHandle ==
    \A p \in Procs :
        (pc[p] = "done" /\ outcome[p].kind = "connection") =>
            /\ outcome[p].cause = lastResult[p]
            /\ web3_providers[network_id[p]] = NoHandle

\* C8: within one acquire call, after an attempt whose chain-identity fetch
\* returned another chain id, the next attempt is not on the same endpoint.
C8_NoRetryAfterChainMismatch ==
    [][\A p \in Procs :
          (/\ pc[p] \in {"connect", "sleep"}
           /\ lastResult[p] = "health_check_failed_chain_id_mismatch"
           /\ tried'[p] # tried[p])
          => lastTried'[p] # lastTried[p]]_vars

\* C9: acquire never returns or caches a handle from an attempt whose
\* sync-status check reported active sync.
C9_SyncingAttemptFails ==
    \A p \in Procs : FreshHandle(p) => ~outcome[p].syncing

\* C10: when the inference call fails during scoreContract, the result has
\* no AI findings and the final score is 0.6*1.0 + 0.4*min(localScore, 1.0)
\* clamped to [0,1].
C10_FailedInferenceCountsAsOne ==
    (scan_pc = "done" /\ ai_analysis = ContractPlaceholder) =>
        /\ scan_result.items = StaticVulns(StaticChecks(source_code))
        /\ scan_result.risk_score =
               WeightedContractScore(LocalSubtotal(source_code), 1000)

\* the risk score of a wallet by the weights 0.4 (heuristic) / 0.6 (AI),
\* clamped to [0,1]
WeightedWalletScore(heuristic, ai) == Clamp01((4 * heuristic + 6 * ai) \div 10)

\* C11: when the inference call fails during scoreWallet, the AI part counts
\* as score 0.5 with no flags and is combined with the heuristic score at
\* weights 0.4 / 0.6; with heuristic score 0.0 the final score is 0.3.
C11_FailedInferenceCountsAsHalf ==
    (wallet_pc = "done" /\ tx_analysis = TransactionPlaceholder) =>
        /\ \A i \in 1 .. Len(wallet_result.items) :
               wallet_result.items[i].by # "ai"
        /\ wallet_result.risk_score =
               WeightedWalletScore(check_contract_interactions, 500)
        /\ wallet_result.risk_score = 300

\* the findings of the four pattern checks, in check order, one per firing
\* check
LocalFindings(src) ==
    (IF src.call_value /\ ~src.guard
     THEN <<Finding("reentrancy", "static")>> ELSE <<>>)
    \o (IF src.low_call /\ ~src.require_call
        THEN <<Finding("unchecked_return", "static")>> ELSE <<>>)
    \o (IF ~src.safemath
        THEN <<Finding("integer_overflow", "static")>> ELSE <<>>)
    \o (IF src.tx_origin
        THEN <<Finding("tx_origin", "static")>> ELSE <<>>)

\* C12: for every combination of the four pattern checks the local subtotal
\* is the sum of the increments 0.4, 0.3, 0.2, 0.4 of the checks that fire,
\* and there is exactly one local finding per firing check, in check order.
C12_LocalChecks ==
    scan_pc = "ai" =>
        /\ risk_score = LocalSubtotal(source_code)
        /\ vulnerabilities = LocalFindings(source_code)

\* reentrancy + missing overflow guard + tx.origin: subtotal 1.0 and the
\* findings reentrancy, integer_overflow, tx_origin
C12_Witness ==
    /\ scan_pc = "ai"
    /\ source_code.call_value /\ ~source_code.guard
    /\ ~(source_code.low_call /\ ~source_code.require_call)
    /\ ~source_code.safemath
    /\ source_code.tx_origin
    /\ risk_score = 1000
    /\ [i \in 1 .. Len(vulnerabilities) |-> vulnerabilities[i].type]
           = <<"reentrancy", "integer_overflow", "tx_origin">>

\* number of calls of the wrapped function initiated so far
RECURSIVE InvokedUpTo(_)
InvokedUpTo(t) == IF t < 0 THEN 0 ELSE invoked[t] + InvokedUpTo(t - 1)

\* the smallest timestamp recorded in the limiter
OldestRecorded == CHOOSE r \in {requests[i] : i \in 1 .. Len(requests)} :
                      \A i \in 1 .. Len(requests) : r <= requests[i]

\* thread t was denied, has slept and is about to call the wrapped function
DelayedCall(t) == rl_pc[t] = "invoke" /\ wake[t] > 0

\* C13: every call through the wrapper eventually invokes the wrapped
\* function exactly once; a call denied because the window is full invokes
\* it only when the oldest recorded timestamp is at least time_window old.
C13_DelayedNotDropped ==
    /\ [](InvokedUpTo(MaxTime)
            = entered - Cardinality({t \in Threads : rl_pc[t] # "idle"}))
    /\ [](\A t \in Threads :
            DelayedCall(t) =>
                requests # <<>> /\ now - OldestRecorded >= TimeWindow)
    /\ \A t \in Threads : (rl_pc[t] # "idle") ~> (rl_pc[t] = "idle")

\* the call after max_requests admitted ones was delayed and now proceeds
C13_Witness ==
    \E t \in Threads :
        /\ DelayedCall(t)
        /\ Len(requests) = MaxRequests
        /\ now = OldestRecorded + TimeWindow

\* C14: while the recorded timestamps stay the same, waitTime() does not
\* increase as the clock advances, and it is exactly 0 at every time at or
\* after (oldest recorded timestamp + time_window).
C14_WaitTimeDecreases ==
    /\ [](requests # <<>> /\ now >= OldestRecorded + TimeWindow
            => wait_time(requests, now) = 0)
    /\ [][(requests' = requests /\ now' >= now)
            => wait_time(requests', now') <= wait_time(requests, now)]_vars

\* the clock has passed the end of the window of the oldest timestamp
C14_Witness ==
    /\ requests # <<>>
    /\ now > OldestRecorded + TimeWindow
    /\ wait_time(requests, now) = 0

\* number of recorded timestamps that are inside the window now
InWindowCount ==
    Cardinality({i \in 1 .. Len(requests) : now - requests[i] < TimeWindow})

\* the oldest of the timestamps that are inside the window now
OldestInWindow ==
    CHOOSE r \in {requests[i] : i \in 1 .. Len(requests)} :
        /\ now - r < TimeWindow
        /\ \A i \in 1 .. Len(requests) :
              now - requests[i] < TimeWindow => r <= requests[i]

YoungerThanWindow(reqs, n) ==
    SelectSeq(reqs, LAMBDA r : ~(n - r >= TimeWindow))

\* C16: tryAcquire first removes every timestamp whose age is at least
\* time_window; then, if the window holds max_requests timestamps, it
\* returns false and records nothing, otherwise it appends the current time
\* and returns true; with sequential callers the window never holds more
\* than max_requests timestamps.
C16_TryAcquire ==
    /\ [](Len(requests) <= MaxRequests)
    /\ [][\A t \in SeqThreads :
            /\ (rl_pc[t] = "assign" /\ rl_pc'[t] = "check")
                  => requests' = YoungerThanWindow(requests, now)
            /\ (rl_pc[t] = "check" /\ rl_pc'[t] = "denied")
                  => Len(requests) = MaxRequests /\ requests' = requests
            /\ (rl_pc[t] = "check" /\ rl_pc'[t] = "append")
                  => Len(requests) < MaxRequests /\ requests' = requests
            /\ (rl_pc[t] = "append" /\ rl_pc'[t] # "append")
                  => rl_pc'[t] = "invoke" /\ requests' = Append(requests, now)
            /\ (rl_pc[t] \in {"denied", "sleeping"})
                  => requests' = requests]_vars

\* a call was denied with a full window after an old timestamp was removed
C16_Witness ==
    \E t \in SeqThreads :
        /\ rl_pc[t] = "denied"
        /\ Len(requests) = MaxRequests
        /\ OldestRecorded > 0

\* the status probe of caller p has its report
Reported(p) == status[p].phase = "done"

\* the probe of caller p failed because of a chain id other than the
\* requested one: the last error of the exhausted acquire was the chain id
\* mismatch, or the chain id read for the report differs
MismatchFailure(p) ==
    /\ Reported(p)
    /\ status[p].status = "error"
    /\ \/ outcome[p].cause = "health_check_failed_chain_id_mismatch"
       \/ status[p].chain_id \notin {0, status[p].network_id}

\* C17: a probeStatus(chainId) that fails because the endpoints report a
\* chain id different from chainId reports category validation, not
\* retryable; configuration reports are not retryable; connection and
\* unknown reports are retryable.
C17_MismatchIsValidation ==
    \A p \in Procs :
        Reported(p) =>
            /\ MismatchFailure(p) =>
                  status[p].error_type = "validation" /\ ~status[p].is_retryable
            /\ status[p].error_type = "configuration" => ~status[p].is_retryable
            /\ status[p].error_type \in {"connection", "unknown"}
                  => status[p].is_retryable

\* attempts made on the endpoints by the running call of caller p
RECURSIVE AttemptsUpTo(_, _)
AttemptsUpTo(p, i) == IF i = 0 THEN 0 ELSE tried[p][i] + AttemptsUpTo(p, i - 1)

\* C18: probeStatus(chainId) for a configured chain always performs a fresh
\* acquire, whatever the cache holds: the cache is neither read nor probed,
\* an 'ok' report comes from a handle made by a new endpoint attempt, and it
\* carries a chain id equal to chainId.
C18_StatusForcesFreshAcquire ==
    \A p \in Procs :
        (status[p].phase # "none" /\ status[p].network_id \in NETWORK_CONFIGS) =>
            /\ force_new[p]
            /\ probes[p] = 0
            /\ pc[p] \notin {"read", "probe", "evict"}
            /\ (Reported(p) /\ status[p].status = "ok") =>
                  /\ outcome[p].kind = "handle"
                  /\ outcome[p].via = "fresh"
                  /\ AttemptsUpTo(p, NumEndpoints) >= 1
                  /\ status[p].chain_id = status[p].network_id

\* an 'ok' report for a chain whose handle was cached when the probe began
C18_Witness ==
    \E p \in Procs :
        /\ Reported(p)
        /\ status[p].status = "ok"
        /\ entry_cache[p][status[p].network_id] # NoHandle
        /\ outcome[p].handle # entry_cache[p][status[p].network_id]

\* the risk_score of an analysis, 0.5 when it has none
ScoreOrHalf(d) == IF "risk_score" \in d.keys THEN d.risk_score ELSE 500

\* C19: the score combination never raises: for any weights, whatever they
\* sum to, it returns the weighted sum clamped to [0,1], with 0.5 for a
\* missing risk_score; when the combination fails because a weight key is
\* missing it returns 0.7.
C19_CombinationNeverRaises ==
    combination.called =>
        LET w == combination.weights
            c == ScoreOrHalf(combination.code_analysis)
            t == ScoreOrHalf(combination.transaction_analysis)
        IN /\ combination.result \in 0 .. 1000
           /\ IF "code_analysis" \in DOMAIN w /\ "transaction_analysis" \in DOMAIN w
              THEN combination.result =
                       Clamp01((w["code_analysis"] * c
                                + w["transaction_analysis"] * t) \div 1000)
              ELSE combination.result = 700

\* weights that sum to less than 0 were passed with scores present, and
\* the result is 0.0
C19_Witness ==
    /\ combination.called
    /\ combination.given
    /\ DOMAIN combination.weights = {"code_analysis", "transaction_analysis"}
    /\ combination.weights["code_analysis"] < 0
    /\ combination.code_analysis.risk_score = 1000
    /\ "risk_score" \notin combination.transaction_analysis.keys
    /\ combination.result = 0

\* the kinds of the local findings of a source, in the order of the checks
LocalKinds(src) ==
    [i \in 1 .. Len(LocalFindings(src)) |-> LocalFindings(src)[i].type]

\* C20: the remediation hints returned by scoreContract are exactly one
\* hint per distinct local finding kind, and none is caused by a finding
\* reported by the inference endpoint, whatever list of findings it returns.
C20_HintsForLocalFindingsOnly ==
    scan_pc = "done" => scan_result.recommendations = LocalKinds(source_code)

\* the findings reported by the inference call of the scan, in the order
\* returned: none when the call failed or the response has no list
AIReported ==
    IF ai_analysis = ContractPlaceholder \/ "vulnerabilities" \notin ai_analysis.keys
    THEN <<>>
    ELSE ai_analysis.items

C22_InferenceNeverFailsTheScan ==
    /\ scan_pc # "raised"
    /\ scan_pc = "done" => scan_result.risk_score <= 1000
    /\ wallet_pc = "done" => wallet_result.risk_score <= 1000

\* the scan is at or past its local checks
PastNetworkPhase == scan_pc \in {"verified", "ai", "combine", "done", "raised"}

\* C23: scoreContract runs the local checks and calls the inference
\* endpoint only after the network was resolved, acquire succeeded and the
\* chain id read from the handle equals the network's chain id; in every
\* other case it returns an error result with score 1.0 and no findings,
\* without a local check and without an inference call.
C23_ChecksOnlyOnVerifiedChain ==
    /\ PastNetworkPhase =>
          /\ network.phase = "verified"
          /\ network.acquires >= 1
          /\ network.chain_id \in NETWORK_CONFIGS
          /\ network.seen = network.chain_id
    /\ (scan_pc = "error") <=> (network.phase = "error")
    /\ scan_pc \in {"network", "error"} =>
          /\ source_code = NoSource
          /\ vulnerabilities = <<>>
          /\ ai_analysis = NoDict
    /\ scan_pc = "error" =>
          /\ network.error \in {"invalid_network", "network_error",
                                "no_reliable_connection", "chain_id_mismatch",
                                "chain_id_unverified"}
          /\ scan_result.risk_score = 1000
          /\ scan_result.items = <<>>

\* acquire succeeded, and the chain id read afterwards was another one
C23_Witness ==
    /\ scan_pc = "error"
    /\ network.error = "chain_id_mismatch"
    /\ network.acquires = 1
    /\ network.seen \notin {0, network.chain_id}
    /\ scan_result.risk_score = 1000

\* C24: when the first acquire of scoreContract fails, exactly one further
\* acquire with forceRefresh=true is made for the same chain before the
\* terminal error is returned, and the terminal error is returned only if
\* that retry fails too.
C24_OneForcedRefreshRetry ==
    /\ network.acquires <= 2
    /\ network.forced <= 1
    /\ (scan_pc = "error"
          /\ network.error \in {"network_error", "no_reliable_connection"})
       => (network.acquires = 2 /\ network.forced = 1)

\* how often timestamp ts is recorded in the limiter
Recorded(ts) == Cardinality({i \in 1 .. Len(requests) : requests[i] = ts})

\* C25: with callers running tryAcquire concurrently on one limiter, the
\* window never holds more than max_requests in-window timestamps, and the
\* timestamp of every admitted call stays in the window until it ages out.
C25_ConcurrentTryAcquire ==
    /\ InWindowCount <= MaxRequests
    /\ \A ts \in 0 .. MaxTime :
          now - ts < TimeWindow => Recorded(ts) >= admitted[ts]

\* C26: with two acquire calls for the same chainId running concurrently,
\* each call ends with a chain-verified handle or with the
\* endpoints-exhausted connection failure, never with another error such
\* as a missing cache key; the cache holds at most one handle for chainId,
\* and that handle was chain-verified.
C26_ConcurrentAcquire ==
    /\ \A p \in Procs :
          pc[p] = "done" =>
              \/ outcome[p].kind = "handle"
                    /\ outcome[p].reported = network_id[p]
              \/ outcome[p].kind = "connection"
    /\ \A n \in NETWORK_CONFIGS :
          web3_providers[n] # NoHandle =>
              /\ web3_providers[n][1] = n
              /\ web3_providers[n][2] \in rpc_urls(n)

\* the running call of caller p has made no endpoint attempt yet
NoAttemptYet(p) == tried[p] = ZeroTried /\ lastTried[p] = 0

\* C27: whenever acquire(chainId, forceRefresh=false) probes a cached handle
\* and the probe fails, by raising or by answering not-connected, that
\* handle is no longer in the cache when the first endpoint attempt of the
\* reconnection starts.
C27_FailedProbeEvicts ==
    \A p \in SeqProcs :
        (probed[p] \in {"no", "raise"} /\ pc[p] = "connect" /\ NoAttemptYet(p))
            => web3_providers[network_id[p]] # provider[p]

\* C28: when forceRefresh is false and the cached handle for chainId answers
\* the liveness probe, acquire returns that same handle, makes no endpoint
\* attempt and no backoff sleep, and leaves the cache unchanged.
C28_CacheHit ==
    \A p \in SeqProcs :
        probed[p] = "yes" =>
            /\ ~force_new[p]
            /\ pc[p] = "done"
            /\ outcome[p].kind = "handle"
            /\ outcome[p].handle = entry_cache[p][network_id[p]]
            /\ outcome[p].handle # NoHandle
            /\ NoAttemptYet(p)
            /\ backoff[p] = 0
            /\ web3_providers = entry_cache[p]

\* a hit on a handle of the second endpoint, with handles cached for both
\* networks
C28_Witness ==
    \E p \in SeqProcs :
        /\ probed[p] = "yes"
        /\ pc[p] = "done"
        /\ outcome[p].handle[2] = 2
        /\ \A n \in NETWORK_CONFIGS : web3_providers[n] # NoHandle

\* attempts made by the running call of caller p on all endpoints
TotalAttempts(p) == AttemptsUpTo(p, NumEndpoints)

\* C29: every acquire call terminates, whatever the endpoints do; it makes
\* at most retry_count attempts on each endpoint and at most (number of
\* endpoints x retry_count) in total, and it reports the connection failure
\* only after every endpoint was attempted exactly retry_count times.
C29_BoundedRetries ==
    /\ [](\A p \in SeqProcs :
            /\ \A i \in 1 .. NumEndpoints : tried[p][i] <= retry_count
            /\ TotalAttempts(p) <= NumEndpoints * retry_count
            /\ (pc[p] = "done" /\ outcome[p].kind = "connection") =>
                  \A i \in rpc_urls(network_id[p]) : tried[p][i] = retry_count)
    /\ \A p \in SeqProcs : (pc[p] # "idle") ~> (pc[p] = "done")

\* the call reported the failure after the full budget on every endpoint
C29_Witness ==
    \E p \in SeqProcs :
        /\ pc[p] = "done"
        /\ outcome[p].kind = "connection"
        /\ TotalAttempts(p) = NumEndpoints * retry_count

\* C30: within one acquire call the backoff slept after the i-th failed
\* attempt on an endpoint, i = 1 .. retry_count, is i x 1 second (1s, 2s,
\* 3s with retry_count = 3).
C30_LinearBackoff ==
    \A p \in SeqProcs :
        (lastTried[p] # 0 /\ lastResult[p] # "ok") =>
            backoff[p] = tried[p][lastTried[p]] * 1

(* ------------------------------------------------------------------ *)
(* C31: the network named in the inference request                    *)
(* ------------------------------------------------------------------ *)
\* C31: every inference request that a contract scan issues names, in
\* its system prompt, the display name of the network that the scan
\* resolved; no request names an unknown or missing network.
C31_RequestNamesResolvedNetwork ==
    prompt_network # NoPrompt =>
        /\ prompt_network = NetworkName(network.chain_id)
        /\ prompt_network # SystemPromptNetwork(None)

====
